---- MODULE Spec2Model ----
(***************************************************************************)
(* Model of the request-log tailing session of stripe-cli (package logs):  *)
(* Tailer.Run, Tailer.processRequestLogEvent and colorizeStatus, together  *)
(* with the websocket transport the Tailer drives and the process-wide     *)
(* signal delivery Run registers for.                                      *)
(***************************************************************************)
EXTENDS Integers, Sequences, FiniteSets

\* ------------------------------------------------------------------ bounds
MaxRuns == 2
MaxEvents == 3
MaxDelay == 1
MaxStatus == 1000
MaxStops == 2

\* --------------------------------------------------------------- constants
outputFormatJSON == "json"
\* make(chan os.Signal): an unbuffered channel.
InterruptChCapUnbuffered == 1 - 1
\* make(chan os.Signal, 1)
InterruptChCap == 1

VARIABLES
    pc,               \* position of Tailer.Run (or the fate of the process)
    runs,             \* number of Run invocations made on this Tailer
    spinner,          \* what the status line shows
    notified,         \* signal.Notify has registered interruptCh
    interruptCh,      \* number of signals buffered in tailer.interruptCh
    sigsSent,         \* signals the OS has delivered to the process
    authCalls,        \* Authorize calls made by the current Run
    authErr,          \* err != nil after the Authorize call of this Run
    session,          \* ReconnectDelay of the session Authorize returned
    runErr,           \* what Run returned: "none" (not returned) or "nil"
    webSocketClient,  \* tailer.webSocketClient: 0 is nil, else a client id
    OutputFormat,     \* tailer.cfg.OutputFormat
    tstate,           \* state of each websocket client
    launched,         \* `go client.Run()` has been executed for the client
    timer,            \* remaining reconnect wait of each client
    connOpen,         \* the client holds an open connection
    closes,           \* connection closes performed by Stop, per client
    stopCalls,        \* Stop calls made, per client
    stoppedFrom,      \* the state the first Stop found the client in
    drops,            \* per connection loss, the frames read before it
    wire,             \* frames read off the connections, in arrival order
    rx,               \* per client: the frame read and not yet parsed
    inflight,         \* per client: the message its callback is running on
    invoked,          \* messages the callback was invoked with, in order
    ninv,             \* callback invocations made, per client
    handled,          \* messages processRequestLogEvent has returned from
    stdout,           \* records written to standard output
    warns,            \* warnings logged by processRequestLogEvent
    colorIn,          \* argument of the colorizeStatus call under study
    colorOut          \* its result, as a sequence: <<>> before the call

tailerVars == <<pc, runs, spinner, notified, interruptCh, sigsSent, authCalls,
                authErr, session, runErr, webSocketClient, OutputFormat>>
clientVars == <<tstate, launched, timer, connOpen, closes, stopCalls,
                stoppedFrom, drops,
                wire, rx, inflight, invoked, ninv>>
dispatchVars == <<handled, stdout, warns>>
colorVars == <<colorIn, colorOut>>
vars == <<tailerVars, clientVars, dispatchVars, colorVars>>

Ids == 1..MaxRuns

\* ------------------------------------------------------------ data model
\* A JSON value as encoding/json sees it.
Absent == [t |-> "absent"]
Str(s) == [t |-> "str", s |-> s]
Num(n) == [t |-> "num", n |-> n]

\* EventPayload strings: ok says whether the text is syntactically valid
\* JSON, the other fields are the members of the object it denotes.
PayloadOK200 == [ok |-> TRUE, created_at |-> Str("t1"), method |-> Str("GET"),
                 request_id |-> Str("req_1"), status |-> Num(200),
                 url |-> Str("/v1/a")]
PayloadTypeErr == [ok |-> TRUE, created_at |-> Str("t3"), method |-> Num(7),
                   request_id |-> Absent, status |-> Str("404"),
                   url |-> Str("/v1/c")]
PayloadMalformed == [ok |-> FALSE, created_at |-> Str("t4"),
                     method |-> Str("PUT"), request_id |-> Str("req_4"),
                     status |-> Num(404), url |-> Str("/v1/d")]
Payloads == {PayloadOK200, PayloadTypeErr, PayloadMalformed}

RequestLogEvent(p) ==
    [EventPayload |-> p, RequestLogID |-> "resp", Type |-> "request_log_event"]

\* websocket.IncomingMessage: RequestLogEvent is a pointer, <<>> is nil.
NilEvent == <<>>
IncomingMessage(e) == [RequestLogEvent |-> e]
Messages == {IncomingMessage(NilEvent)} \cup
            {IncomingMessage(<<RequestLogEvent(p)>>) : p \in Payloads}

\* Frames on the wire: one that does not parse, or one carrying a message.
BadFrame == [parses |-> FALSE]
Frames == {BadFrame} \cup {[parses |-> TRUE, msg |-> m] : m \in Messages}

\* EventPayload struct and its zero value.
ZeroPayload == [CreatedAt |-> "", Method |-> "", RequestID |-> "",
                Status |-> 0, URL |-> ""]

DecodeString(v) == IF v.t = "str" THEN v.s ELSE ""
DecodeInt(v) == IF v.t = "num" THEN v.n ELSE 0
Mismatch(v, want) == v.t # "absent" /\ v.t # want

\* Unmarshal that stores the members it scanned even when the text turns
\* out to be invalid.
UnmarshalPartial(text) ==
    [err |-> \/ ~text.ok
             \/ Mismatch(text.created_at, "str")
             \/ Mismatch(text.method, "str")
             \/ Mismatch(text.request_id, "str")
             \/ Mismatch(text.status, "num")
             \/ Mismatch(text.url, "str"),
     payload |-> [CreatedAt |-> DecodeString(text.created_at),
                  Method |-> DecodeString(text.method),
                  RequestID |-> DecodeString(text.request_id),
                  Status |-> DecodeInt(text.status),
                  URL |-> DecodeString(text.url)]]

\* json.Unmarshal([]byte(text), &payload) on a zero payload: invalid syntax
\* is rejected before anything is stored; on valid syntax every member that
\* fits its field is stored and a member of the wrong type is reported.
Unmarshal(text) ==
    IF ~text.ok
    THEN [err |-> TRUE, payload |-> ZeroPayload]
    ELSE [err |-> \/ Mismatch(text.created_at, "str")
                  \/ Mismatch(text.method, "str")
                  \/ Mismatch(text.request_id, "str")
                  \/ Mismatch(text.status, "num")
                  \/ Mismatch(text.url, "str"),
          payload |-> [CreatedAt |-> DecodeString(text.created_at),
                       Method |-> DecodeString(text.method),
                       RequestID |-> DecodeString(text.request_id),
                       Status |-> DecodeInt(text.status),
                       URL |-> DecodeString(text.url)]]

\* colorizeStatus with the client-error test off by one.
colorizeStatusYellowGt(status) ==
    IF status >= 500
    THEN [color |-> "red", bold |-> TRUE, value |-> status]
    ELSE IF status > 400
         THEN [color |-> "yellow", bold |-> TRUE, value |-> status]
         ELSE [color |-> "green", bold |-> TRUE, value |-> status]

\* colorizeStatus with the server-error test off by one.
colorizeStatusGt(status) ==
    IF status > 500
    THEN [color |-> "red", bold |-> TRUE, value |-> status]
    ELSE IF status >= 400
         THEN [color |-> "yellow", bold |-> TRUE, value |-> status]
         ELSE [color |-> "green", bold |-> TRUE, value |-> status]

\* colorizeStatus: the aurora value built for a status.
colorizeStatus(status) ==
    IF status >= 500
    THEN [color |-> "red", bold |-> TRUE, value |-> status]
    ELSE IF status >= 400
         THEN [color |-> "yellow", bold |-> TRUE, value |-> status]
         ELSE [color |-> "green", bold |-> TRUE, value |-> status]

\* The record fmt.Println writes in each output mode.
JSONRecord(text) == [mode |-> "json", text |-> text]
HumanRecord(payload) ==
    [mode |-> "human", CreatedAt |-> payload.CreatedAt,
     status |-> colorizeStatus(payload.Status), Method |-> payload.Method,
     URL |-> payload.URL, RequestID |-> payload.RequestID]

\* processRequestLogEvent that warns about a message without a request-log
\* event and goes on to print a line for it.
processRequestLogEventNilPrints(format, msg) ==
    IF msg.RequestLogEvent = NilEvent
    THEN [out |-> <<HumanRecord(ZeroPayload)>>, warn |-> 1]
    ELSE LET requestLogEvent == msg.RequestLogEvent[1]
         IN  IF format = outputFormatJSON
             THEN [out |-> <<JSONRecord(requestLogEvent.EventPayload)>>,
                   warn |-> 0]
             ELSE LET dec == Unmarshal(requestLogEvent.EventPayload)
                  IN  [out |-> <<HumanRecord(dec.payload)>>,
                       warn |-> IF dec.err THEN 1 ELSE 0]

\* processRequestLogEvent that returns after the warning when the payload
\* does not decode.
processRequestLogEventSkip(format, msg) ==
    IF msg.RequestLogEvent = NilEvent
    THEN [out |-> <<>>, warn |-> 1]
    ELSE LET requestLogEvent == msg.RequestLogEvent[1]
         IN  IF format = outputFormatJSON
             THEN [out |-> <<JSONRecord(requestLogEvent.EventPayload)>>,
                   warn |-> 0]
             ELSE LET dec == Unmarshal(requestLogEvent.EventPayload)
                  IN  IF dec.err
                      THEN [out |-> <<>>, warn |-> 1]
                      ELSE [out |-> <<HumanRecord(dec.payload)>>, warn |-> 0]

\* Tailer.processRequestLogEvent as a function of the output format and the
\* message: the records it prints and the warnings it logs.
processRequestLogEvent(format, msg) ==
    IF msg.RequestLogEvent = NilEvent
    THEN [out |-> <<>>, warn |-> 1]
    ELSE LET requestLogEvent == msg.RequestLogEvent[1]
         IN  IF format = outputFormatJSON
             THEN [out |-> <<JSONRecord(requestLogEvent.EventPayload)>>,
                   warn |-> 0]
             ELSE LET dec == Unmarshal(requestLogEvent.EventPayload)
                  IN  [out |-> <<HumanRecord(dec.payload)>>,
                       warn |-> IF dec.err THEN 1 ELSE 0]


\* ------------------------------------------------------------------ Init
\* The state New leaves behind: nothing registered, no client, an empty
\* channel of capacity one.
TailerInit ==
    /\ pc = "idle"
    /\ runs = 0
    /\ spinner = "none"
    /\ notified = FALSE
    /\ interruptCh = 0
    /\ sigsSent = 0
    /\ authCalls = 0
    /\ authErr = FALSE
    /\ session = 0
    /\ runErr = "none"
    /\ webSocketClient = 0
    /\ OutputFormat \in {outputFormatJSON, "human"}

ClientInit ==
    /\ tstate = [i \in Ids |-> "None"]
    /\ launched = [i \in Ids |-> FALSE]
    /\ timer = [i \in Ids |-> 0]
    /\ connOpen = [i \in Ids |-> FALSE]
    /\ closes = [i \in Ids |-> 0]
    /\ stopCalls = [i \in Ids |-> 0]
    /\ stoppedFrom = [i \in Ids |-> "None"]
    /\ drops = <<>>
    /\ wire = <<>>
    /\ rx = [i \in Ids |-> <<>>]
    /\ inflight = [i \in Ids |-> <<>>]
    /\ invoked = <<>>
    /\ ninv = [i \in Ids |-> 0]

DispatchInit ==
    /\ handled = <<>>
    /\ stdout = <<>>
    /\ warns = 0

Init ==
    /\ TailerInit
    /\ ClientInit
    /\ DispatchInit
    /\ colorIn = 0
    /\ colorOut = <<>>

\* Clients whose background loop has ended on its own.
Failures ==
    Cardinality({i \in Ids : tstate[i] = "Failed" \/ stoppedFrom[i] = "Failed"})

\* What the environment has done to the process so far: signals delivered,
\* frames sent, connections broken and transports brought down.  The model
\* stops it at MaxEvents.
Events == sigsSent + Len(wire) + Len(drops) + Failures
MoreEvents == Events < MaxEvents

\* The process is running: neither exited by Fatalf nor killed by a signal.
Alive == pc \notin {"fatal", "killed"}

\* ------------------------------------------------------- websocket client
\* Stop that leaves a client alone while it waits to reconnect.
StopKeepsWaiting(id) ==
    /\ stopCalls' = [stopCalls EXCEPT ![id] = @ + 1]
    /\ IF tstate[id] \in {"Stopped", "Reconnecting"}
       THEN UNCHANGED <<tstate, timer, connOpen, closes, stoppedFrom>>
       ELSE /\ tstate' = [tstate EXCEPT ![id] = "Stopped"]
            /\ stoppedFrom' = [stoppedFrom EXCEPT ![id] = tstate[id]]
            /\ timer' = [timer EXCEPT ![id] = 0]
            /\ connOpen' = [connOpen EXCEPT ![id] = FALSE]
            /\ closes' = [closes EXCEPT ![id] = IF connOpen[id] THEN @ + 1 ELSE @]
    /\ UNCHANGED <<launched, drops, wire, rx, inflight, invoked, ninv>>

\* Stop that closes the connection on every call.
StopClosesAgain(id) ==
    /\ stopCalls' = [stopCalls EXCEPT ![id] = @ + 1]
    /\ closes' = [closes EXCEPT ![id] = @ + 1]
    /\ connOpen' = [connOpen EXCEPT ![id] = FALSE]
    /\ timer' = [timer EXCEPT ![id] = 0]
    /\ IF tstate[id] = "Stopped"
       THEN UNCHANGED <<tstate, stoppedFrom>>
       ELSE /\ tstate' = [tstate EXCEPT ![id] = "Stopped"]
            /\ stoppedFrom' = [stoppedFrom EXCEPT ![id] = tstate[id]]
    /\ UNCHANGED <<launched, drops, wire, rx, inflight, invoked, ninv>>

\* Client.Stop: the client becomes Stopped whatever it was doing, a pending
\* reconnect wait is cancelled and the connection is closed.  On a stopped
\* client it changes nothing.
Stop(id) ==
    /\ stopCalls' = [stopCalls EXCEPT ![id] = @ + 1]
    /\ IF tstate[id] = "Stopped"
       THEN UNCHANGED <<tstate, timer, connOpen, closes, stoppedFrom>>
       ELSE /\ tstate' = [tstate EXCEPT ![id] = "Stopped"]
            /\ stoppedFrom' = [stoppedFrom EXCEPT ![id] = tstate[id]]
            /\ timer' = [timer EXCEPT ![id] = 0]
            /\ connOpen' = [connOpen EXCEPT ![id] = FALSE]
            /\ closes' = [closes EXCEPT ![id] = IF connOpen[id] THEN @ + 1 ELSE @]
    /\ UNCHANGED <<launched, drops, wire, rx, inflight, invoked, ninv>>

\* The background task begins its connect loop even when Stop came first.
ClientStartIgnoresStop(id) ==
    /\ Alive
    /\ launched[id]
    /\ \/ tstate[id] = "New"
       \/ tstate[id] = "Stopped" /\ stoppedFrom[id] = "New"
    /\ tstate' = [tstate EXCEPT ![id] = "Connecting"]
    /\ UNCHANGED <<launched, timer, connOpen, closes, stopCalls,
                   stoppedFrom, drops, wire, rx, inflight, invoked, ninv,
                   tailerVars, dispatchVars, colorVars>>

\* Client.Run, first step of the background task: begin the connect loop,
\* unless the client was stopped before the task was scheduled.
ClientStart(id) ==
    /\ Alive
    /\ launched[id]
    /\ tstate[id] = "New"
    /\ tstate' = [tstate EXCEPT ![id] = "Connecting"]
    /\ UNCHANGED <<launched, timer, connOpen, closes, stopCalls,
                   stoppedFrom, drops, wire, rx, inflight, invoked, ninv,
                   tailerVars, dispatchVars, colorVars>>

ConnectOK(id) ==
    /\ Alive
    /\ tstate[id] = "Connecting"
    /\ tstate' = [tstate EXCEPT ![id] = "Connected"]
    /\ connOpen' = [connOpen EXCEPT ![id] = TRUE]
    /\ UNCHANGED <<launched, timer, closes, stopCalls, stoppedFrom, drops,
                   wire, rx, inflight, invoked, ninv, tailerVars,
                   dispatchVars, colorVars>>

BeginStream(id) ==
    /\ Alive
    /\ tstate[id] = "Connected"
    /\ tstate' = [tstate EXCEPT ![id] = "Streaming"]
    /\ UNCHANGED <<launched, timer, connOpen, closes, stopCalls,
                   stoppedFrom, drops, wire, rx, inflight, invoked, ninv,
                   tailerVars, dispatchVars, colorVars>>

\* Connection loss while connecting or streaming: wait the reconnect
\* interval, then connect again.  The loop notices a loss only between
\* frames, after the callback for the previous frame has returned.
ConnLost(id) ==
    /\ Alive
    /\ tstate[id] \in {"Connecting", "Streaming"}
    /\ rx[id] = <<>>
    /\ inflight[id] = <<>>
    /\ MoreEvents
    /\ drops' = Append(drops, Len(wire))
    /\ tstate' = [tstate EXCEPT ![id] = "Reconnecting"]
    /\ connOpen' = [connOpen EXCEPT ![id] = FALSE]
    /\ timer' = [timer EXCEPT ![id] = session]
    /\ UNCHANGED <<launched, closes, stopCalls, stoppedFrom, wire, rx,
                   inflight, invoked, ninv, tailerVars, dispatchVars,
                   colorVars>>

\* A terminal failure: the client's loop ends on its own, between frames,
\* and nothing is told to the Tailer.
ClientFail(id) ==
    /\ Alive
    /\ tstate[id] \in {"Connecting", "Connected", "Streaming", "Reconnecting"}
    /\ rx[id] = <<>>
    /\ inflight[id] = <<>>
    /\ MoreEvents
    /\ tstate' = [tstate EXCEPT ![id] = "Failed"]
    /\ connOpen' = [connOpen EXCEPT ![id] = FALSE]
    /\ timer' = [timer EXCEPT ![id] = 0]
    /\ UNCHANGED <<launched, closes, stopCalls, stoppedFrom, drops, wire,
                   rx, inflight, invoked, ninv, tailerVars, dispatchVars,
                   colorVars>>

\* One unit of the reconnect wait elapses.
Tick(id) ==
    /\ Alive
    /\ tstate[id] = "Reconnecting"
    /\ timer[id] > 0
    /\ timer' = [timer EXCEPT ![id] = @ - 1]
    /\ UNCHANGED <<tstate, launched, connOpen, closes, stopCalls,
                   stoppedFrom, drops, wire, rx, inflight, invoked, ninv,
                   tailerVars, dispatchVars, colorVars>>

\* The reconnect wait is over: connect again.
Reconnect(id) ==
    /\ Alive
    /\ tstate[id] = "Reconnecting"
    /\ timer[id] = 0
    /\ tstate' = [tstate EXCEPT ![id] = "Connecting"]
    /\ UNCHANGED <<launched, timer, connOpen, closes, stopCalls,
                   stoppedFrom, drops, wire, rx, inflight, invoked, ninv,
                   tailerVars, dispatchVars, colorVars>>

\* A frame arrives on the open connection of a streaming client.
ReadFrame(id, f) ==
    /\ Alive
    /\ tstate[id] = "Streaming"
    /\ rx[id] = <<>>
    /\ inflight[id] = <<>>
    /\ MoreEvents
    /\ rx' = [rx EXCEPT ![id] = <<f>>]
    /\ wire' = Append(wire, f)
    /\ UNCHANGED <<tstate, launched, timer, connOpen, closes, stopCalls,
                   stoppedFrom, drops, inflight, invoked, ninv, tailerVars,
                   dispatchVars, colorVars>>

\* Deliver that hands the frame to the EventHandler without looking at the
\* client's state.
DeliverUnchecked(id) ==
    /\ Alive
    /\ rx[id] # <<>>
    /\ rx' = [rx EXCEPT ![id] = <<>>]
    /\ IF rx[id][1].parses
       THEN /\ inflight' = [inflight EXCEPT ![id] = <<rx[id][1].msg>>]
            /\ invoked' = Append(invoked, rx[id][1].msg)
            /\ ninv' = [ninv EXCEPT ![id] = @ + 1]
       ELSE UNCHANGED <<inflight, invoked, ninv>>
    /\ UNCHANGED <<tstate, launched, timer, connOpen, closes, stopCalls,
                   stoppedFrom, drops, wire, tailerVars, dispatchVars,
                   colorVars>>

\* The frame is parsed: a frame that parses is handed to the EventHandler,
\* one that does not is logged and dropped.  A client stopped in the
\* meantime discards the frame.
Deliver(id) ==
    /\ Alive
    /\ rx[id] # <<>>
    /\ rx' = [rx EXCEPT ![id] = <<>>]
    /\ IF tstate[id] = "Streaming" /\ rx[id][1].parses
       THEN /\ inflight' = [inflight EXCEPT ![id] = <<rx[id][1].msg>>]
            /\ invoked' = Append(invoked, rx[id][1].msg)
            /\ ninv' = [ninv EXCEPT ![id] = @ + 1]
       ELSE UNCHANGED <<inflight, invoked, ninv>>
    /\ UNCHANGED <<tstate, launched, timer, connOpen, closes, stopCalls,
                   stoppedFrom, drops, wire, tailerVars, dispatchVars,
                   colorVars>>

\* ------------------------------------------------------------ dispatcher
\* The EventHandler runs processRequestLogEvent on the message it was
\* invoked with and returns to the client's loop.
Dispatch(id) ==
    /\ Alive
    /\ inflight[id] # <<>>
    /\ LET r == processRequestLogEvent(OutputFormat, inflight[id][1])
       IN  /\ stdout' = stdout \o r.out
           /\ warns' = warns + r.warn
    /\ handled' = Append(handled, inflight[id][1])
    /\ inflight' = [inflight EXCEPT ![id] = <<>>]
    /\ UNCHANGED <<tstate, launched, timer, connOpen, closes, stopCalls,
                   stoppedFrom, drops, wire, rx, invoked, ninv, tailerVars,
                   colorVars>>

\* ------------------------------------------------------------ Tailer.Run
\* Run is called on the Tailer: the spinner starts.
StartRun ==
    /\ pc \in {"idle", "returned"}
    /\ runs < MaxRuns
    /\ runs' = runs + 1
    /\ pc' = "notify"
    /\ spinner' = "Getting ready..."
    /\ runErr' = "none"
    /\ authCalls' = 0
    /\ authErr' = FALSE
    /\ UNCHANGED <<notified, interruptCh, sigsSent, session,
                   webSocketClient, OutputFormat, clientVars, dispatchVars,
                   colorVars>>

\* Run goes on to Authorize without having registered for signals.
NotifyLate ==
    /\ pc = "notify"
    /\ pc' = "authorize"
    /\ UNCHANGED <<runs, spinner, notified, interruptCh, sigsSent,
                   authCalls, authErr, session, runErr, webSocketClient,
                   OutputFormat, clientVars, dispatchVars, colorVars>>

\* signal.Notify(tailer.interruptCh, os.Interrupt, syscall.SIGTERM)
Notify ==
    /\ pc = "notify"
    /\ notified' = TRUE
    /\ pc' = "authorize"
    /\ UNCHANGED <<runs, spinner, interruptCh, sigsSent, authCalls, authErr,
                   session, runErr, webSocketClient, OutputFormat, clientVars,
                   dispatchVars, colorVars>>

\* Run calls Authorize and blocks in it.
AuthorizeCall ==
    /\ pc = "authorize"
    /\ authCalls' = authCalls + 1
    /\ pc' = "authorizing"
    /\ UNCHANGED <<runs, spinner, notified, interruptCh, sigsSent, authErr,
                   session, runErr, webSocketClient, OutputFormat, clientVars,
                   dispatchVars, colorVars>>

\* Authorize returns a session with reconnect delay d.
AuthorizeOK(d) ==
    /\ pc = "authorizing"
    /\ session' = d
    /\ pc' = "construct"
    /\ UNCHANGED <<runs, spinner, notified, interruptCh, sigsSent,
                   authCalls, authErr, runErr, webSocketClient, OutputFormat,
                   clientVars, dispatchVars, colorVars>>

\* Authorize fails and Run carries on to build the client.
AuthorizeErrContinue ==
    /\ pc = "authorizing"
    /\ authErr' = TRUE
    /\ pc' = "construct"
    /\ UNCHANGED <<runs, spinner, notified, interruptCh, sigsSent,
                   authCalls, session, runErr, webSocketClient, OutputFormat,
                   clientVars, dispatchVars, colorVars>>

\* Authorize returns an error: Log.Fatalf logs and exits the process.
AuthorizeErr ==
    /\ pc = "authorizing"
    /\ authErr' = TRUE
    /\ pc' = "fatal"
    /\ UNCHANGED <<runs, spinner, notified, interruptCh, sigsSent,
                   authCalls, session, runErr, webSocketClient, OutputFormat,
                   clientVars, dispatchVars, colorVars>>

\* tailer.webSocketClient = websocket.NewClient(...): a fresh client.
NewClient ==
    /\ pc = "construct"
    /\ webSocketClient' = runs
    /\ tstate' = [tstate EXCEPT ![runs] = "New"]
    /\ pc' = "go"
    /\ UNCHANGED <<runs, spinner, notified, interruptCh, sigsSent,
                   authCalls, authErr, session, runErr, OutputFormat,
                   launched, timer, connOpen, closes, stopCalls, stoppedFrom,
                   drops, wire, rx, inflight, invoked, ninv, dispatchVars,
                   colorVars>>

\* Run prints the ready message before it launches the client.
GoRunLate ==
    /\ pc = "go"
    /\ spinner' = "Ready!"
    /\ pc' = "ready"
    /\ UNCHANGED <<runs, notified, interruptCh, sigsSent, authCalls,
                   authErr, session, runErr, webSocketClient, OutputFormat,
                   clientVars, dispatchVars, colorVars>>

\* tailer.webSocketClient.Run() without `go`: the call returns only once
\* the client has been stopped.
GoRunBlocking ==
    /\ pc = "go"
    /\ tstate[webSocketClient] = "Stopped"
    /\ launched' = [launched EXCEPT ![webSocketClient] = TRUE]
    /\ pc' = "ready"
    /\ UNCHANGED <<runs, spinner, notified, interruptCh, sigsSent,
                   authCalls, authErr, session, runErr, webSocketClient,
                   OutputFormat, tstate, timer, connOpen, closes, stopCalls,
                   stoppedFrom, drops, wire, rx, inflight, invoked, ninv,
                   dispatchVars, colorVars>>

\* go tailer.webSocketClient.Run()
GoRun ==
    /\ pc = "go"
    /\ launched' = [launched EXCEPT ![webSocketClient] = TRUE]
    /\ pc' = "ready"
    /\ UNCHANGED <<runs, spinner, notified, interruptCh, sigsSent,
                   authCalls, authErr, session, runErr, webSocketClient,
                   OutputFormat, tstate, timer, connOpen, closes, stopCalls,
                   stoppedFrom, drops, wire, rx, inflight, invoked, ninv,
                   dispatchVars, colorVars>>

\* ansi.StopSpinner(s, "Ready! ..."): Run enters its wait loop.
StopSpinner ==
    /\ pc = "ready"
    /\ spinner' = "Ready!"
    /\ pc' = "wait"
    /\ UNCHANGED <<runs, notified, interruptCh, sigsSent, authCalls,
                   authErr, session, runErr, webSocketClient, OutputFormat,
                   clientVars, dispatchVars, colorVars>>

\* The select takes the signal and the loop goes round again.
RecvInterruptNoReturn ==
    /\ pc = "wait"
    /\ interruptCh > 0
    /\ interruptCh' = interruptCh - 1
    /\ pc' = "wait"
    /\ UNCHANGED <<runs, spinner, notified, sigsSent, authCalls, authErr,
                   session, runErr, webSocketClient, OutputFormat, clientVars,
                   dispatchVars, colorVars>>

\* The wait also ends when the client has lost its connection.
RecvInterruptOrDrop ==
    /\ pc = "wait"
    /\ \/ /\ interruptCh > 0
          /\ interruptCh' = interruptCh - 1
       \/ /\ tstate[webSocketClient] = "Reconnecting"
          /\ interruptCh' = interruptCh
    /\ pc' = "cleanup"
    /\ UNCHANGED <<runs, spinner, notified, sigsSent, authCalls, authErr,
                   session, runErr, webSocketClient, OutputFormat, clientVars,
                   dispatchVars, colorVars>>

\* case <-tailer.interruptCh: the select takes a buffered signal.
RecvInterrupt ==
    /\ pc = "wait"
    /\ interruptCh > 0
    /\ interruptCh' = interruptCh - 1
    /\ pc' = "cleanup"
    /\ UNCHANGED <<runs, spinner, notified, sigsSent, authCalls, authErr,
                   session, runErr, webSocketClient, OutputFormat, clientVars,
                   dispatchVars, colorVars>>

\* Cleanup with the nil test inverted: Stop is never called.
CleanupNoStop ==
    /\ pc = "cleanup"
    /\ IF webSocketClient = 0
       THEN Stop(webSocketClient)
       ELSE UNCHANGED clientVars
    /\ pc' = "returned"
    /\ runErr' = "nil"
    /\ UNCHANGED <<runs, spinner, notified, interruptCh, sigsSent, authCalls,
                   authErr, session, webSocketClient, OutputFormat>>
    /\ UNCHANGED <<dispatchVars, colorVars>>

\* Cleanup without the return: the loop goes round to the select again.
CleanupLoops ==
    /\ pc = "cleanup"
    /\ IF webSocketClient # 0
       THEN Stop(webSocketClient)
       ELSE UNCHANGED clientVars
    /\ pc' = "wait"
    /\ UNCHANGED <<runs, spinner, notified, interruptCh, sigsSent, authCalls,
                   authErr, session, runErr, webSocketClient, OutputFormat>>
    /\ UNCHANGED <<dispatchVars, colorVars>>

\* if tailer.webSocketClient != nil { Stop() }; return nil
Cleanup ==
    /\ pc = "cleanup"
    /\ IF webSocketClient # 0
       THEN Stop(webSocketClient)
       ELSE UNCHANGED clientVars
    /\ pc' = "returned"
    /\ runErr' = "nil"
    /\ UNCHANGED <<runs, spinner, notified, interruptCh, sigsSent, authCalls,
                   authErr, session, webSocketClient, OutputFormat>>
    /\ UNCHANGED <<dispatchVars, colorVars>>

\* ----------------------------------------------------------------- signals
\* The OS delivers an interrupt or termination signal to the process.  Once
\* Notify has registered the channel the runtime sends on it without
\* blocking and drops the signal when the buffer is full; before that the
\* signal's default action ends the process.
Signal ==
    /\ Alive
    /\ MoreEvents
    /\ sigsSent' = sigsSent + 1
    /\ IF notified
       THEN /\ interruptCh' = IF interruptCh < InterruptChCap
                              THEN interruptCh + 1
                              ELSE interruptCh
            /\ pc' = pc
       ELSE /\ pc' = "killed"
            /\ interruptCh' = interruptCh
    /\ UNCHANGED <<runs, spinner, notified, authCalls, authErr, session,
                   runErr, webSocketClient, OutputFormat, clientVars,
                   dispatchVars, colorVars>>

\* A step of Run itself.
TailerStep ==
    \/ StartRun
    \/ Notify
    \/ AuthorizeCall
    \/ \E d \in 1..MaxDelay : AuthorizeOK(d)
    \/ AuthorizeErr
    \/ NewClient
    \/ GoRun
    \/ StopSpinner
    \/ RecvInterrupt
    \/ Cleanup

\* ------------------------------------------------------------------- Next
Next ==
    \/ StartRun
    \/ Notify
    \/ AuthorizeCall
    \/ \E d \in 1..MaxDelay : AuthorizeOK(d)
    \/ AuthorizeErr
    \/ NewClient
    \/ GoRun
    \/ StopSpinner
    \/ RecvInterrupt
    \/ Cleanup
    \/ Signal
    \/ \E id \in Ids : ClientStart(id)
    \/ \E id \in Ids : ConnectOK(id)
    \/ \E id \in Ids : BeginStream(id)
    \/ \E id \in Ids : ConnLost(id)
    \/ \E id \in Ids : ClientFail(id)
    \/ \E id \in Ids : Tick(id)
    \/ \E id \in Ids : Reconnect(id)
    \/ \E id \in Ids, f \in Frames : ReadFrame(id, f)
    \/ \E id \in Ids : Deliver(id)
    \/ \E id \in Ids : Dispatch(id)

Spec == Init /\ [][Next]_vars

\* The scheduler runs a runnable foreground goroutine: once a signal is
\* buffered the select takes it, and the cleanup that follows completes.
LiveSpec == Spec /\ WF_vars(RecvInterrupt) /\ WF_vars(Cleanup)

\* Run's steps from the Authorize call's return to the wait loop are taken
\* too: the constructor returns and the go statement does not block.
LiveSpecRun ==
    /\ LiveSpec
    /\ WF_vars(NewClient)
    /\ WF_vars(GoRun)
    /\ WF_vars(StopSpinner)

\* A caller of the client that calls Stop again on a client already stopped.
StopAgain(id) ==
    /\ Alive
    /\ stopCalls[id] >= 1
    /\ stopCalls[id] < MaxStops
    /\ Stop(id)
    /\ UNCHANGED <<tailerVars, dispatchVars, colorVars>>

NextStop ==
    \/ Next
    \/ \E id \in Ids : StopAgain(id)

SpecStop == Init /\ [][NextStop]_vars

\* colorizeStatus on its own: any status in range, applied once.
StatusInputs == (0 - MaxStatus)..MaxStatus

InitColor ==
    /\ TailerInit
    /\ ClientInit
    /\ DispatchInit
    /\ colorIn \in StatusInputs
    /\ colorOut = <<>>

Colorize ==
    /\ colorOut = <<>>
    /\ colorOut' = <<colorizeStatus(colorIn)>>
    /\ UNCHANGED <<colorIn, tailerVars, clientVars, dispatchVars>>

NextColor == Colorize

SpecColor == InitColor /\ [][NextColor]_vars

TypeOK ==
    /\ pc \in {"idle", "notify", "authorize", "authorizing", "construct", "go",
               "ready", "wait", "cleanup", "returned", "fatal", "killed"}
    /\ runs \in 0..MaxRuns
    /\ interruptCh \in 0..InterruptChCap
    /\ webSocketClient \in 0..MaxRuns
    /\ \A i \in Ids : tstate[i] \in {"None", "New", "Connecting", "Connected",
                                     "Streaming", "Reconnecting", "Failed",
                                     "Stopped"}
    /\ \A i \in Ids : Len(rx[i]) <= 1 /\ Len(inflight[i]) <= 1
    /\ Events <= MaxEvents

\* ================================================================ claims
IsRequestLog(m) == m.RequestLogEvent # NilEvent
IsNotRequestLog(m) == m.RequestLogEvent = NilEvent
FrameParses(f) == f.parses

\* The request-log messages the dispatcher has been run on, in order.
RequestLogsHandled == SelectSeq(handled, IsRequestLog)
PayloadOf(m) == m.RequestLogEvent[1].EventPayload

\* s is a prefix of t.
IsPrefix(s, t) == Len(s) <= Len(t) /\ \A i \in 1..Len(s) : s[i] = t[i]

\* C1: a signal buffered while Run is in its wait loop leads to Run
\* returning nil with Stop called exactly once on the client of that Run,
\* and whenever Run has returned, Stop was called exactly once on it.
C1_InterruptStopsOnceAndReturns ==
    /\ (pc = "wait" /\ interruptCh > 0)
         ~> (pc = "returned" /\ runErr = "nil" /\ stopCalls[webSocketClient] = 1)
    /\ [](pc = "returned" => runErr = "nil" /\ stopCalls[webSocketClient] = 1)

\* C1 witness: Run has returned nil after stopping a client that was
\* streaming when the signal was handled.
C1_Witness ==
    /\ pc = "returned"
    /\ runErr = "nil"
    /\ stopCalls[webSocketClient] = 1
    /\ stoppedFrom[webSocketClient] = "Streaming"

\* C2: when Authorize has returned an error, the process has exited through
\* Fatalf, Run has not returned, Authorize was called once, and no client
\* was constructed or launched by this Run.
C2_AuthErrorIsFatal ==
    authErr =>
        /\ pc = "fatal"
        /\ runErr = "none"
        /\ authCalls = 1
        /\ tstate[runs] = "None"
        /\ ~launched[runs]
        /\ webSocketClient # runs
        /\ (runs = 1 => webSocketClient = 0)

\* C2 witness: the first Run's Authorize failed.
C2_Witness == authErr /\ pc = "fatal" /\ runs = 1 /\ webSocketClient = 0

\* What the spec says one output record for a request-log message is: the
\* raw payload in json mode, the line of decoded fields in human mode.
RendersMessage(rec, m) ==
    IF OutputFormat = outputFormatJSON
    THEN rec.mode = "json" /\ rec.text = PayloadOf(m)
    ELSE /\ rec.mode = "human"
         /\ rec.URL = (IF PayloadOf(m).ok THEN DecodeString(PayloadOf(m).url)
                       ELSE "")

\* C3: standard output holds exactly one record per request-log message the
\* dispatcher was run on, the i-th record rendering the i-th message.
C3_OneRecordPerMessageInOrder ==
    /\ Len(stdout) = Len(RequestLogsHandled)
    /\ \A i \in 1..Len(stdout) : RendersMessage(stdout[i], RequestLogsHandled[i])

\* C3 witness: two different request-log messages were handled and printed,
\* the second one with a payload that does not decode cleanly.
C3_Witness ==
    /\ Len(RequestLogsHandled) = 2
    /\ Len(stdout) = 2
    /\ stdout[1] # stdout[2]
    /\ PayloadOf(RequestLogsHandled[1]) = PayloadOK200
    /\ PayloadOf(RequestLogsHandled[2]) = PayloadTypeErr

\* The line human mode prints for a payload none of whose fields decoded.
ZeroLine ==
    [mode |-> "human", CreatedAt |-> "",
     status |-> [color |-> "green", bold |-> TRUE, value |-> 0],
     Method |-> "", URL |-> "", RequestID |-> ""]

\* The fields of a well-formed payload, as the line must show them.
ShowsOwnFields(rec, p) ==
    /\ rec.mode = "human"
    /\ rec.CreatedAt = p.created_at.s
    /\ rec.status.value = p.status.n
    /\ rec.Method = p.method.s
    /\ rec.URL = p.url.s
    /\ rec.RequestID = p.request_id.s

WellFormed(p) == p = PayloadOK200
LogsWarning(m) == IsNotRequestLog(m) \/ Unmarshal(PayloadOf(m)).err

\* What C4 says of the output so far, in human mode.
MalformedRendering ==
    OutputFormat # outputFormatJSON =>
        /\ Len(stdout) = Len(RequestLogsHandled)
        /\ warns = Len(SelectSeq(handled, LogsWarning))
        /\ \A i \in 1..Len(RequestLogsHandled) :
              LET p == PayloadOf(RequestLogsHandled[i])
              IN  /\ ~p.ok => stdout[i] = ZeroLine
                  /\ WellFormed(p) => ShowsOwnFields(stdout[i], p)

\* C4: in human mode every handled event with a malformed payload produced
\* a warning and the zero-valued line, every handled well-formed event
\* produced a line of its own fields, and the dispatcher returning from an
\* event leaves Run where it was, in a process that is still running.
C4_MalformedPayloadDoesNotAbort ==
    /\ []MalformedRendering
    /\ [][Len(handled') > Len(handled) => pc' = pc /\ Alive']_vars

\* C4 witness: a malformed event, then a well-formed one, both printed.
C4_Witness ==
    /\ OutputFormat = "human"
    /\ Len(handled) = 2
    /\ IsRequestLog(handled[1])
    /\ PayloadOf(handled[1]) = PayloadMalformed
    /\ IsRequestLog(handled[2])
    /\ PayloadOf(handled[2]) = PayloadOK200
    /\ Len(stdout) = 2
    /\ stdout[1] = ZeroLine
    /\ stdout[2].RequestID = "req_1"
    /\ warns = 1

ColorIs(s, c) == colorIn = s => colorOut[1].color = c /\ colorOut[1].value = s

\* C5 as stated: 200 green, 404 yellow, 500 red, 503 red, 301 yellow,
\* 999 red.
C5_Original ==
    colorOut # <<>> =>
        /\ ColorIs(200, "green")
        /\ ColorIs(404, "yellow")
        /\ ColorIs(500, "red")
        /\ ColorIs(503, "red")
        /\ ColorIs(301, "yellow")
        /\ ColorIs(999, "red")

\* C5 amended: colorizeStatus maps 200 to green, 404 to yellow, 500 to red,
\* 503 to red, 301 to green and 999 to red.
C5_ColorTable ==
    colorOut # <<>> =>
        /\ ColorIs(200, "green")
        /\ ColorIs(404, "yellow")
        /\ ColorIs(500, "red")
        /\ ColorIs(503, "red")
        /\ ColorIs(301, "green")
        /\ ColorIs(999, "red")

\* C5 witness: colorizeStatus(301) has been computed and is green.
C5_Witness == colorOut # <<>> /\ colorIn = 301 /\ colorOut[1].color = "green"

\* The messages of the frames on the wire that parse, in arrival order.
ParsedOnWire == SelectSeq(wire, FrameParses)
ParsedMsgs == [i \in 1..Len(ParsedOnWire) |-> ParsedOnWire[i].msg]

\* Frames read and still to be handed over; callbacks still running.
PendingParsed == Cardinality({id \in Ids : rx[id] # <<>> /\ rx[id][1].parses})
InFlight == Cardinality({id \in Ids : inflight[id] # <<>>})

\* C6: as long as no signal was delivered, whatever connections were lost,
\* Run has neither returned nor begun cleanup, the process has ended only
\* if Authorize failed, no client is stopped, the callback was invoked with
\* exactly the parsed frames in arrival order (all but the one still being
\* handed over), and the dispatcher has handled the invocations in order
\* (all but the one still running).
C6_DropDoesNotEndRunNorLoseFrames ==
    sigsSent = 0 =>
        /\ pc \notin {"cleanup", "returned", "killed"}
        /\ (pc = "fatal" => authErr)
        /\ \A id \in Ids : tstate[id] # "Stopped"
        /\ IsPrefix(invoked, ParsedMsgs)
        /\ Len(invoked) = Len(ParsedMsgs) - PendingParsed
        /\ IsPrefix(handled, invoked)
        /\ Len(handled) = Len(invoked) - InFlight

\* C6 witness: reconnect delay 1, one frame handled before the only
\* connection loss and one after the reconnect, Run still waiting.
C6_Witness ==
    /\ sigsSent = 0
    /\ session = 1
    /\ drops = <<1>>
    /\ Len(wire) = 2
    /\ Len(handled) = 2
    /\ handled[1] # handled[2]
    /\ pc = "wait"
    /\ tstate[webSocketClient] = "Streaming"

\* C7: a client on which Stop was called is Stopped; a Stopped client stays
\* Stopped; and a client becomes Stopped only in a step that calls Stop.
C7_StoppedIsTerminal ==
    /\ [](\A id \in Ids : stopCalls[id] > 0 => tstate[id] = "Stopped")
    /\ [][\A id \in Ids :
            /\ tstate[id] = "Stopped" => tstate'[id] = "Stopped"
            /\ (tstate[id] # "Stopped" /\ tstate'[id] = "Stopped")
                  => stopCalls'[id] = stopCalls[id] + 1]_vars

\* C7 witness: Stop found the client waiting to reconnect.
C7_Witness ==
    \E id \in Ids :
        /\ tstate[id] = "Stopped"
        /\ stoppedFrom[id] = "Reconnecting"
        /\ Len(drops) = 1
        /\ pc = "returned"

\* C8: once Stop has returned on a client, no step invokes that client's
\* callback again.
C8_NoCallbackAfterStop ==
    [][\A id \in Ids : stopCalls[id] > 0 => ninv'[id] = ninv[id]]_vars

\* C8 witness: a frame that parses was read by a client, Stop returned
\* before it was handed over, and the frame was discarded.
C8_Witness ==
    /\ \E id \in Ids : stopCalls[id] > 0 /\ stoppedFrom[id] = "Streaming"
    /\ PendingParsed = 0
    /\ Len(ParsedMsgs) > Len(invoked)

\* C9: a Stop call on a client already stopped leaves it Stopped, closes
\* nothing, and changes nothing else of the client.
C9_StopIsIdempotent ==
    [][\A id \in Ids :
         (stopCalls[id] >= 1 /\ stopCalls'[id] > stopCalls[id]) =>
            /\ tstate[id] = "Stopped"
            /\ tstate'[id] = "Stopped"
            /\ closes'[id] = closes[id]
            /\ connOpen'[id] = connOpen[id]
            /\ timer'[id] = timer[id]
            /\ stoppedFrom'[id] = stoppedFrom[id]
            /\ Alive']_vars

\* C9 witness: Stop was called twice on a client whose connection was open
\* at the first call.
C9_Witness ==
    \E id \in Ids :
        /\ stopCalls[id] = 2
        /\ closes[id] = 1
        /\ tstate[id] = "Stopped"
        /\ ~connOpen[id]

\* Clients constructed on which Stop has not been called.
LiveClients == {id \in Ids : tstate[id] # "None" /\ stopCalls[id] = 0}

\* C10: at most one client is constructed and not stopped, and it is the
\* one tailer.webSocketClient refers to.
C10_AtMostOneClient ==
    /\ Cardinality(LiveClients) <= 1
    /\ LiveClients \subseteq {webSocketClient}

\* C10 witness: a second Run has its client streaming after the first
\* Run's client was stopped.
C10_Witness ==
    /\ runs = 2
    /\ stopCalls[1] = 1
    /\ stopCalls[2] = 0
    /\ tstate[2] = "Streaming"

\* Signals taken off the channel by Run: one per Run that has reached its
\* cleanup.
SignalsTaken ==
    Cardinality({id \in Ids : stopCalls[id] > 0})
        + (IF pc = "cleanup" THEN 1 ELSE 0)

\* Signals sent on a full channel and dropped by the runtime.
SignalsDropped ==
    sigsSent - SignalsTaken - interruptCh - (IF pc = "killed" THEN 1 ELSE 0)

\* C11: however many signals arrive, the sender can always deliver the next
\* one, the channel never holds more than its capacity, a signal delivered
\* after registration never ends the process, no signal is taken twice, and
\* Stop is called at most once on every client.
C11_RapidSignalsSingleShutdown ==
    /\ (Alive /\ MoreEvents) => ENABLED Signal
    /\ interruptCh \in 0..InterruptChCap
    /\ (pc = "killed" => ~notified)
    /\ SignalsDropped >= 0
    /\ \A id \in Ids : stopCalls[id] <= 1

\* C11 witness: three signals reached one Run; one was taken, one was
\* dropped, one is left in the channel, and Stop was called once.
C11_Witness ==
    /\ runs = 1
    /\ pc = "returned"
    /\ sigsSent = 3
    /\ interruptCh = 1
    /\ SignalsDropped = 1
    /\ stopCalls[1] = 1

\* C12 as stated: when the client's loop has ended on its own while Run is
\* in its wait loop, Run can leave the wait without a signal.
C12_TransportFailureEndsWait ==
    (pc = "wait" /\ tstate[webSocketClient] = "Failed" /\ interruptCh = 0)
        => ENABLED TailerStep

\* C13: a message without a request-log event makes the dispatcher log one
\* warning, print nothing and return with Run and every client where they
\* were; a request-log message handled at any time prints one record.
C13_NonRequestLogIsDiscarded ==
    /\ [][(Len(handled') > Len(handled)
             /\ IsNotRequestLog(handled'[Len(handled')]))
          => /\ stdout' = stdout
             /\ warns' = warns + 1
             /\ pc' = pc
             /\ tstate' = tstate
             /\ Alive']_vars
    /\ [][(Len(handled') > Len(handled)
             /\ IsRequestLog(handled'[Len(handled')]))
          => Len(stdout') = Len(stdout) + 1]_vars

\* C13 witness: a message without a request-log event was discarded with a
\* warning and the request-log event after it was printed.
C13_Witness ==
    /\ Len(handled) = 2
    /\ IsNotRequestLog(handled[1])
    /\ IsRequestLog(handled[2])
    /\ PayloadOf(handled[2]) = PayloadOK200
    /\ Len(stdout) = 1
    /\ warns = 1

\* C14: for every status, colorizeStatus gives the status in bold, red
\* exactly when status >= 500, yellow exactly when 400 <= status <= 499,
\* green exactly when status < 400.
C14_ColorRanges ==
    colorOut # <<>> =>
        /\ colorOut[1].bold
        /\ colorOut[1].value = colorIn
        /\ colorOut[1].color \in {"red", "yellow", "green"}
        /\ colorOut[1].color = "red" <=> colorIn >= 500
        /\ colorOut[1].color = "yellow" <=> (colorIn >= 400 /\ colorIn <= 499)
        /\ colorOut[1].color = "green" <=> colorIn < 400

\* C14 witness: a negative status was colored green and bold.
C14_Witness ==
    /\ colorOut # <<>>
    /\ colorIn = 0 - 7
    /\ colorOut[1].color = "green"
    /\ colorOut[1].bold

\* Positions of Run at which the client of this Run has been constructed.
AfterConstruct == {"go", "ready", "wait", "cleanup", "returned"}

\* C15: Authorize is called only after signals are registered; the client
\* of a Run exists only after that Run's Authorize succeeded; the ready
\* message is shown only after the client was launched; and Stop is called
\* on a client only after it was constructed and launched, the ready
\* message was shown and a signal was taken off the channel.
C15_RunStepOrder ==
    /\ authCalls > 0 => notified
    /\ (runs > 0 /\ tstate[runs] # "None") =>
          /\ authCalls = 1
          /\ ~authErr
          /\ pc \in AfterConstruct
          /\ webSocketClient = runs
    /\ spinner = "Ready!" => launched[runs]
    /\ \A id \in Ids : launched[id] => tstate[id] # "None"
    /\ \A id \in Ids :
          stopCalls[id] > 0 =>
             /\ launched[id]
             /\ id < runs \/ (spinner = "Ready!" /\ pc = "returned")
    /\ sigsSent - interruptCh >= Cardinality({id \in Ids : stopCalls[id] > 0})

\* C15 witness: one Run went through every step and returned.
C15_Witness ==
    /\ runs = 1
    /\ pc = "returned"
    /\ notified
    /\ authCalls = 1
    /\ launched[1]
    /\ spinner = "Ready!"
    /\ stopCalls[1] = 1
    /\ stoppedFrom[1] = "Connected"

\* C16: once Authorize has succeeded, Run reaches its wait loop with the
\* ready message shown, whatever the client does or fails to do.
C16_StartDoesNotBlockRun ==
    (pc = "construct") ~> (pc = "wait" /\ spinner = "Ready!")

\* C16 witness: Run is in its wait loop while the client is still trying to
\* connect.
C16_Witness ==
    /\ pc = "wait"
    /\ spinner = "Ready!"
    /\ tstate[webSocketClient] = "Connecting"
    /\ ~connOpen[webSocketClient]

\* C17: while Authorize has not returned, signals are registered, Run has
\* not returned and this Run has no client; a signal arriving then leaves
\* Run in the call and stops nothing; and Run leaves the call only by
\* Authorize returning.
C17_HungAuthorizeIgnoresSignals ==
    /\ [](pc = "authorizing" =>
            /\ notified
            /\ runErr = "none"
            /\ tstate[runs] = "None"
            /\ stopCalls[runs] = 0)
    /\ [][(pc = "authorizing" /\ sigsSent' > sigsSent) =>
            /\ pc' = "authorizing"
            /\ stopCalls' = stopCalls
            /\ tstate' = tstate]_vars
    /\ [][(pc = "authorizing" /\ pc' # "authorizing") =>
            /\ pc' \in {"construct", "fatal"}
            /\ sigsSent' = sigsSent]_vars

\* C17 witness: two signals arrived while Authorize was hanging and Run is
\* still in the call.
C17_Witness ==
    /\ pc = "authorizing"
    /\ runs = 1
    /\ sigsSent = 2
    /\ interruptCh = 1
    /\ webSocketClient = 0

\* Positions of Run between signal registration and the wait loop.
PreWait == {"authorize", "authorizing", "construct", "go", "ready"}

\* C18: a signal delivered once signals are registered is in the channel
\* afterwards; a signal in the channel stays there while Run is on its way
\* to the wait loop; and when Authorize has succeeded with a signal in the
\* channel, Run launches the client, calls Stop once and returns nil.
C18_EarlySignalIsNotLost ==
    /\ [][(notified /\ sigsSent' > sigsSent) => interruptCh' >= 1]_vars
    /\ [][(pc \in PreWait /\ interruptCh >= 1) => interruptCh' >= 1]_vars
    /\ (pc = "construct" /\ interruptCh >= 1)
          ~> (/\ pc = "returned"
              /\ runErr = "nil"
              /\ launched[webSocketClient]
              /\ stopCalls[webSocketClient] = 1)

\* C18 witness: a signal that arrived while Authorize was running is still
\* in the channel when Run has constructed the client.
C18_Witness ==
    /\ runs = 1
    /\ pc = "go"
    /\ sigsSent = 1
    /\ interruptCh = 1
    /\ tstate[1] = "New"

\* C19: a client that Stop found before its background task had taken a
\* step is Stopped, holds no connection and no frame, and has never invoked
\* the dispatcher.
C19_StopBeforeFirstStep ==
    \A id \in Ids :
        stoppedFrom[id] = "New" =>
            /\ tstate[id] = "Stopped"
            /\ ~connOpen[id]
            /\ ninv[id] = 0
            /\ rx[id] = <<>>
            /\ inflight[id] = <<>>

\* C19 witness: the task was launched, Stop came first, and Run returned.
C19_Witness ==
    \E id \in Ids :
        /\ launched[id]
        /\ stoppedFrom[id] = "New"
        /\ stopCalls[id] = 1
        /\ pc = "returned"

====
